---- MODULE Spec2Model ----
(***************************************************************************)
(* Model of src/src/download.py: the cycle loop of __main__, main(), the   *)
(* range-resumable download_file, verify_hash and get_folder_name, with    *)
(* the filesystem, the remote HTTP server and the termination signal as    *)
(* the environment.                                                        *)
(***************************************************************************)
EXTENDS Integers, Sequences, FiniteSets, TLC

----------------------------------------------------------------------------
(* Bounds                                                                  *)

\* longest file content and response body, in bytes
MaxLen == 2
\* number of cycles of the loop that are explored
MaxCycles == 2
\* seconds of the inter-cycle interval (30 * 60 in the source, shortened)
interval == 2
\* bytes delivered by one iteration of response.iter_content (8192 in the
\* source, shortened)
block_size == 1

----------------------------------------------------------------------------
(* Data                                                                    *)

Byte == {0, 1}

\* every byte string of at most n bytes
Contents(n) == UNION {[1..k -> Byte] : k \in 0..n}

\* marks a path with no file (no content holds the byte -1)
Absent == <<-1>>

IsPrefix(p, s) == Len(p) <= Len(s) /\ SubSeq(s, 1, Len(p)) = p

\* str.lower() on the characters a hex string of the manifest can hold
LowerChar(c) == CASE c = "A" -> "a" [] c = "E" -> "e" [] OTHER -> c

lower(s) == [k \in 1..Len(s) |-> LowerChar(s[k])]

UpperChar(c) == CASE c = "a" -> "A" [] c = "e" -> "E" [] OTHER -> c

\* the same hex string written in capitals, as a manifest may hold it
upper(s) == [k \in 1..Len(s) |-> UpperChar(s[k])]

\* hashlib.sha256(content).hexdigest(): a lowercase hex string, one for each
\* content (collisions are not modelled)
hexdigest(content) ==
    <<"e">> \o [k \in 1..Len(content) |-> IF content[k] = 0 THEN "0" ELSE "a"]

verify_hash_nolower(content, expected_hash) ==
    hexdigest(content) = expected_hash

\* verify_hash on a file holding content
verify_hash(content, expected_hash) ==
    lower(hexdigest(content)) = lower(expected_hash)

get_folder_name_plural_first(model_type, folders) ==
    IF (model_type \o "s") \in folders THEN model_type \o "s" ELSE model_type

get_folder_name(model_type, folders) ==
    IF model_type \notin folders /\ (model_type \o "s") \in folders
    THEN model_type \o "s"
    ELSE model_type

----------------------------------------------------------------------------
(* The inputs a run reads: models.txt and the folders of ComfyUI/models     *)

Entry(t, u, f, h) == [model_type |-> t, url |-> u, filename |-> f, hash |-> h]

\* expected hashes a manifest line can hold: the digest of a two-byte file in
\* lowercase and in capitals, and the digest of a one-byte file
Hashes == {hexdigest(<<0, 1>>), upper(hexdigest(<<0, 1>>)), hexdigest(<<1>>)}

\* the manifests explored: one entry, the same entry twice, and two entries
\* that resolve to the same file when only "loras" is a folder
Manifests ==
    {<<Entry("lora", "u1", "f1", h)>> : h \in Hashes}
    \cup {<<Entry("lora", "u1", "f1", h), Entry("lora", "u1", "f1", h)>> : h \in Hashes}
    \cup {<<Entry("lora", "u1", "f1", hexdigest(<<0, 1>>)), Entry("loras", "u2", "f1", h)>> :
              h \in Hashes}

FolderSets == {{"loras"}, {"lora", "loras"}}

Folders == {"lora", "loras"}

Paths == Folders \X {"f1"}

----------------------------------------------------------------------------
(* State                                                                   *)

VARIABLES
    pc,                \* position of the main thread
    running,           \* the global flag cleared by signal_handler
    cycle,             \* iterations of the while loop entered so far
    i,                 \* seconds slept in the current wait
    err,               \* the exception a cycle raised, "none" outside handling
    MODEL_CACHE_PATH,  \* whether the environment variable is set
    comfy_folders,     \* folder names under ComfyUI/models
    models,            \* the parsed models.txt
    fs,                \* path -> content of the file, or Absent
    idx,               \* position of main's for loop in models
    file_size, mode, total_size, status, resp, downloaded, \* download_file
    pre,               \* content of the destination when download_file began
    nhead, nget,       \* HEAD and GET requests made for the current entry
    outcome,           \* how the last processed entry ended
    lastIdx,           \* the entry outcome is about
    sigIdx,            \* entry being processed when the first signal came
    sigWait,           \* the first signal came during an inter-cycle wait
    slept,             \* seconds slept since a signal that came during a wait
    fn_arg, fn_ret     \* arguments and result of a function called on its own

env == <<MODEL_CACHE_PATH, comfy_folders, models>>
loc == <<file_size, mode, total_size, status, resp, downloaded, pre, nhead, nget>>
hist == <<outcome, lastIdx>>
call == <<fn_arg, fn_ret>>
sig == <<running, sigIdx, sigWait>>
vars == <<pc, cycle, i, err, env, call, fs, idx, loc, hist, sig, slept>>

\* positions inside the processing of one manifest entry
EntryPcs == {"head", "get", "open", "stream", "verify"}

\* positions inside an inter-cycle wait
WaitPcs == {"wait", "sleep1", "errsleep"}

\* destination of a manifest entry: cache_path / folder_name / filename
file_path(e) == <<get_folder_name(e.model_type, comfy_folders), e.filename>>

\* the destination of the entry main's loop is at
destination == file_path(models[idx])

Init ==
    /\ pc = "while"
    /\ running = TRUE
    /\ cycle = 0
    /\ i = 0
    /\ err = "none"
    /\ MODEL_CACHE_PATH \in BOOLEAN
    /\ comfy_folders \in FolderSets
    /\ models \in Manifests
    /\ fs \in [Paths -> Contents(MaxLen) \cup {Absent}]
    /\ \A p \in Paths :
           (\A k \in 1..Len(models) : file_path(models[k]) # p) => fs[p] = Absent
    /\ idx = 0
    /\ file_size = 0 /\ mode = "wb" /\ total_size = 0 /\ status = 0
    /\ resp = <<>> /\ downloaded = 0 /\ pre = Absent
    /\ nhead = 0 /\ nget = 0
    /\ outcome = "none" /\ lastIdx = 0
    /\ sigIdx = 0 /\ sigWait = FALSE /\ slept = 0
    /\ fn_arg = <<>> /\ fn_ret = <<>>

\* the locals of download_file as they are before a call
ResetLocals ==
    /\ file_size' = 0 /\ mode' = "wb" /\ total_size' = 0 /\ status' = 0
    /\ resp' = <<>> /\ downloaded' = 0 /\ pre' = Absent

RetryEntry(kind) ==
    IF pc \in EntryPcs
    THEN pc' = "head" /\ err' = err /\ i' = i
    ELSE pc' = "errsleep" /\ err' = kind /\ i' = 0

\* an exception reaches the except clause of the cycle loop, which logs it
\* and calls time.sleep(interval)
Raise(kind) ==
    /\ pc' = "errsleep"
    /\ err' = kind
    /\ i' = 0

----------------------------------------------------------------------------
(* The cycle loop of __main__                                              *)

loop_always == TRUE

\* the condition of: while running
loop_condition == running

except_sleep_responsive == i >= interval \/ ~running

\* time.sleep(interval) of the except clause has slept the whole interval
except_sleep_over == i >= interval

\* while running: the body is entered, cycle becoming count
EnterCycle(count) ==
    /\ pc = "while" /\ loop_condition
    /\ cycle' = count
    /\ pc' = "main"
    /\ err' = "none"
    /\ UNCHANGED <<i, env, call, fs, idx, loc, hist, sig, slept>>

\* while running: the body is entered, for the first MaxCycles cycles
WhileRunning == cycle < MaxCycles /\ EnterCycle(cycle + 1)

\* while running: the body is entered, in every cycle; cycles after the
\* first MaxCycles are not counted
WhileRunningOn == EnterCycle(IF cycle < MaxCycles THEN cycle + 1 ELSE cycle)

\* while running: the flag is clear, the loop is left
WhileExit ==
    /\ pc = "while" /\ ~loop_condition
    /\ pc' = "done"
    /\ err' = "none"
    /\ UNCHANGED <<cycle, i, env, call, fs, idx, loc, hist, sig, slept>>

\* main returned: break when the flag is clear, else start the wait
CycleCompleted ==
    /\ pc = "completed"
    /\ IF ~running THEN pc' = "done" ELSE pc' = "wait"
    /\ i' = 0
    /\ UNCHANGED <<cycle, err, env, call, fs, idx, loc, hist, sig, slept>>

\* one iteration head of: for _ in range(interval): if not running: break
WaitCheck ==
    /\ pc = "wait"
    /\ IF i >= interval \/ ~running THEN pc' = "while" ELSE pc' = "sleep1"
    /\ UNCHANGED <<cycle, i, err, env, call, fs, idx, loc, hist, sig, slept>>

\* time.sleep(1) of the wait loop returns
Sleep1 ==
    /\ pc = "sleep1"
    /\ i' = i + 1
    /\ pc' = "wait"
    /\ slept' = IF sigWait /\ slept < interval THEN slept + 1 ELSE slept
    /\ UNCHANGED <<cycle, err, env, call, fs, idx, loc, hist, sig>>

\* one second of time.sleep(interval) in the except clause passes; the call
\* is not interrupted by a handled signal
ErrSleepTick ==
    /\ pc = "errsleep" /\ ~except_sleep_over
    /\ i' = i + 1
    /\ slept' = IF sigWait /\ slept < interval THEN slept + 1 ELSE slept
    /\ UNCHANGED <<pc, cycle, err, env, call, fs, idx, loc, hist, sig>>

\* time.sleep(interval) returns and the loop condition is tested again
ErrSleepEnd ==
    /\ pc = "errsleep" /\ except_sleep_over
    /\ pc' = "while"
    /\ UNCHANGED <<cycle, i, err, env, call, fs, idx, loc, hist, sig, slept>>

\* a handler that flips the flag instead of clearing it
signal_toggles ==
    /\ pc # "done"
    /\ running' = ~running
    /\ sigIdx' = IF running /\ pc \in EntryPcs THEN idx ELSE sigIdx
    /\ sigWait' = IF running /\ pc \in WaitPcs THEN TRUE ELSE sigWait
    /\ UNCHANGED <<pc, cycle, i, err, env, call, fs, idx, loc, hist, slept>>

\* SIGTERM or SIGINT is delivered: signal_handler clears the flag
signal_handler ==
    /\ pc # "done"
    /\ running' = FALSE
    /\ sigIdx' = IF running /\ pc \in EntryPcs THEN idx ELSE sigIdx
    /\ sigWait' = IF running /\ pc \in WaitPcs THEN TRUE ELSE sigWait
    /\ UNCHANGED <<pc, cycle, i, err, env, call, fs, idx, loc, hist, slept>>

----------------------------------------------------------------------------
(* main()                                                                  *)

\* the environment check and the creation of the cache directory
MainEnv ==
    /\ pc = "main"
    /\ IF ~MODEL_CACHE_PATH
       THEN Raise("config")
       ELSE pc' = "clone" /\ UNCHANGED <<i, err>>
    /\ UNCHANGED <<cycle, env, call, fs, idx, loc, hist, sig, slept>>

\* clone_comfyui() returns the folder names
CloneReturns ==
    /\ pc = "clone"
    /\ pc' = "parse"
    /\ UNCHANGED <<cycle, i, err, env, call, fs, idx, loc, hist, sig, slept>>

\* clone_comfyui(): returns the folder names or raises
CloneComfyui ==
    \/ CloneReturns
    \/ /\ pc = "clone"
       /\ Raise("clone")
       /\ UNCHANGED <<cycle, env, call, fs, idx, loc, hist, sig, slept>>

\* parse_models_file() returns the entries
ParseReturns ==
    /\ pc = "parse"
    /\ pc' = "loop" /\ idx' = 1
    /\ UNCHANGED <<cycle, i, err, env, call, fs, loc, hist, sig, slept>>

\* parse_models_file(): returns the entries or raises
ParseModels ==
    \/ ParseReturns
    \/ /\ pc = "parse"
       /\ Raise("parse")
       /\ UNCHANGED <<cycle, env, call, fs, idx, loc, hist, sig, slept>>

\* the for loop is exhausted: main returns
MainReturn ==
    /\ pc = "loop" /\ idx > Len(models)
    /\ pc' = "completed"
    /\ UNCHANGED <<cycle, i, err, env, call, fs, idx, loc, hist, sig, slept>>

exists_only(e) == fs[file_path(e)] # Absent

never_valid(e) == FALSE

\* the test that lets main skip an entry: file_path.exists() and verify_hash
already_valid(e) ==
    fs[file_path(e)] # Absent /\ verify_hash(fs[file_path(e)], e.hash)

no_unlink(files, p) == files

\* file_path.unlink()
unlink(files, p) == [files EXCEPT ![p] = Absent]

\* the next entry: an existing file whose hash verifies is skipped, anything
\* else goes to download_file. What the previous entry left in the locals of
\* download_file and in the request counts is forgotten here.
CheckExisting ==
    /\ pc = "loop" /\ idx <= Len(models)
    /\ IF already_valid(models[idx])
       THEN /\ outcome' = "AlreadyValid"
            /\ lastIdx' = idx
            /\ idx' = idx + 1
            /\ pc' = "loop"
       ELSE /\ pc' = "head"
            /\ UNCHANGED <<idx, hist>>
    /\ ResetLocals
    /\ nhead' = 0 /\ nget' = 0
    /\ UNCHANGED <<cycle, i, err, env, call, fs, sig, slept>>

\* verify_hash after download_file returned: success, or unlink and raise (the
\* locals of download_file are gone once the exception leaves main)
VerifyDownloaded ==
    /\ pc = "verify"
    /\ IF fs[destination] = Absent
       THEN /\ Raise("io")
            /\ outcome' = "Failed"
            /\ ResetLocals
            /\ UNCHANGED <<fs, idx, nhead, nget>>
       ELSE IF verify_hash(fs[destination], models[idx].hash)
       THEN /\ outcome' = "Downloaded"
            /\ idx' = idx + 1
            /\ pc' = "loop"
            /\ UNCHANGED <<fs, i, err, loc>>
       ELSE /\ fs' = unlink(fs, destination)
            /\ outcome' = "Failed"
            /\ Raise("digest")
            /\ ResetLocals
            /\ UNCHANGED <<idx, nhead, nget>>
    /\ lastIdx' = idx
    /\ UNCHANGED <<cycle, env, call, sig, slept>>

----------------------------------------------------------------------------
(* download_file(url, destination)                                         *)

\* response statuses the server may send: partial content, full content, a
\* success status that is neither, and two error statuses
Statuses == {200, 203, 206, 404, 416}

\* an exception leaves download_file and main
DownloadRaise(kind) ==
    /\ Raise(kind)
    /\ outcome' = "Failed"
    /\ lastIdx' = idx
    /\ ResetLocals

mode_kept(st, md) == md

\* the mode after the status is handled: a 200 response restarts the file
mode_after(st, md) == IF st = 200 THEN "wb" ELSE md

open_truncate(md, old) == <<>>

\* content of the destination once open(destination, md) has returned
opened(md, old) == IF md = "wb" \/ old = Absent THEN <<>> ELSE old

\* the part of the response body iter_content has not delivered yet
remaining == SubSeq(resp, downloaded - file_size + 1, Len(resp))

never_complete(size, total) == FALSE

\* the test of the early return: the local size is the remote size
already_complete(size, total) == size = total /\ total > 0

\* the size and mode are taken from the destination and the HEAD request is
\* answered; an unchanged complete file returns at once
HeadResponse(content_length) ==
    /\ pc = "head"
    /\ file_size' = IF fs[destination] # Absent THEN Len(fs[destination]) ELSE 0
    /\ mode' = IF fs[destination] # Absent THEN "ab" ELSE "wb"
    /\ pre' = fs[destination]
    /\ total_size' = content_length
    /\ pc' = IF already_complete(file_size', total_size')
             THEN "verify" ELSE "get"
    /\ nhead' = nhead + 1
    /\ UNCHANGED <<cycle, i, err, env, call, fs, idx, status, resp, downloaded,
                   nget, hist, sig, slept>>

\* download_file up to the early return, with any answer to the HEAD request
\* or none
HeadRequest ==
    \/ /\ pc = "head"
       /\ DownloadRaise("network")
       /\ nhead' = nhead + 1
       /\ UNCHANGED <<cycle, env, call, fs, idx, nget, sig, slept>>
    \/ \E content_length \in 0..MaxLen : HeadResponse(content_length)

\* the GET request (ranged when file_size > 0) has been answered, and the
\* handling of the status.
\* A 200 response carries the length of its body as content-length or no
\* content-length (chunked); a 206 response carries a content-range whose total
\* is the end of the body it sends, or no content-range.
GetResponse(st, content, has_size, has_content_range) ==
    LET size == IF st = 206 THEN file_size + Len(content)
                ELSE IF has_size THEN Len(content) ELSE 0
    IN
    /\ pc = "get"
    /\ IF st >= 400 \/ (st = 206 /\ ~has_content_range)
       THEN /\ DownloadRaise(IF st = 206 THEN "header" ELSE "status")
            /\ nget' = nget + 1
            /\ UNCHANGED <<cycle, env, call, fs, idx, nhead, sig, slept>>
       ELSE /\ total_size' = IF st = 203 THEN total_size ELSE size
            /\ file_size' = IF st = 200 THEN 0 ELSE file_size
            /\ mode' = mode_after(st, mode)
            /\ Len(content) + (IF mode' = "ab" THEN file_size ELSE 0) <= MaxLen
            /\ status' = st
            /\ resp' = content
            /\ downloaded' = file_size'
            /\ pc' = "open"
            /\ nget' = nget + 1
            /\ UNCHANGED <<cycle, i, err, env, call, fs, idx, pre, nhead, hist, sig, slept>>

\* the GET request with any answer or none
GetRequest ==
    \/ /\ pc = "get"
       /\ DownloadRaise("network")
       /\ nget' = nget + 1
       /\ UNCHANGED <<cycle, env, call, fs, idx, nhead, sig, slept>>
    \/ \E st \in Statuses, content \in Contents(MaxLen),
          has_size \in BOOLEAN, has_content_range \in BOOLEAN :
         GetResponse(st, content, has_size, has_content_range)

\* open(destination, mode) returns: 'wb' truncates, 'ab' keeps the bytes; both
\* create the file
OpenReturns ==
    /\ pc = "open"
    /\ fs' = [fs EXCEPT ![destination] = opened(mode, @)]
    /\ pc' = "stream"
    /\ UNCHANGED <<cycle, i, err, env, call, idx, loc, hist, sig, slept>>

\* open(destination, mode): returns or raises
Open ==
    \/ OpenReturns
    \/ /\ pc = "open"
       /\ DownloadRaise("io")
       /\ UNCHANGED <<cycle, env, call, fs, idx, nhead, nget, sig, slept>>

\* one block of the body is written at the end of the file
StreamBlock ==
    /\ pc = "stream" /\ remaining # <<>>
    /\ LET data == SubSeq(remaining, 1,
                          IF Len(remaining) < block_size THEN Len(remaining)
                                                         ELSE block_size)
       IN /\ downloaded' = downloaded + Len(data)
          /\ fs' = [fs EXCEPT ![destination] = @ \o data]
    /\ UNCHANGED <<pc, cycle, i, err, env, call, idx, file_size, mode, total_size,
                   status, resp, pre, nhead, nget, hist, sig, slept>>

removed_on_error(files, p) == [files EXCEPT ![p] = Absent]

\* the with block is left by an exception: the file is closed and keeps what
\* was written to it
closed_on_error(files, p) == files

\* the connection fails while the body is streamed
StreamError ==
    /\ pc = "stream"
    /\ DownloadRaise("stream")
    /\ fs' = closed_on_error(fs, destination)
    /\ UNCHANGED <<cycle, env, call, idx, nhead, nget, sig, slept>>

\* the body is exhausted: the file is closed and download_file returns
StreamEnd ==
    /\ pc = "stream" /\ remaining = <<>>
    /\ pc' = "verify"
    /\ UNCHANGED <<cycle, i, err, env, call, fs, idx, loc, hist, sig, slept>>

----------------------------------------------------------------------------

Next ==
    \/ WhileRunning \/ WhileExit \/ CycleCompleted
    \/ WaitCheck \/ Sleep1 \/ ErrSleepTick \/ ErrSleepEnd
    \/ signal_handler
    \/ MainEnv \/ CloneComfyui \/ ParseModels \/ MainReturn
    \/ CheckExisting \/ VerifyDownloaded
    \/ HeadRequest \/ GetRequest \/ Open \/ StreamBlock \/ StreamError \/ StreamEnd

Spec == Init /\ [][Next]_vars

\* the steps of the program itself: every call returns, a signal may or may
\* not come
ProgramStep ==
    \/ WhileRunning \/ WhileExit \/ CycleCompleted
    \/ WaitCheck \/ Sleep1 \/ ErrSleepTick \/ ErrSleepEnd
    \/ MainEnv \/ CloneComfyui \/ ParseModels \/ MainReturn
    \/ CheckExisting \/ VerifyDownloaded
    \/ HeadRequest \/ GetRequest \/ Open \/ StreamBlock \/ StreamError \/ StreamEnd

\* a manifest of one entry, any server, any signal, every call returning
InitShutdown == Init /\ Len(models) = 1

SpecShutdown == InitShutdown /\ [][Next]_vars /\ WF_vars(ProgramStep)

TypeOK ==
    /\ pc \in {"while", "main", "clone", "parse", "loop", "completed", "wait",
               "sleep1", "errsleep", "done"} \cup EntryPcs
    /\ running \in BOOLEAN
    /\ cycle \in 0..MaxCycles
    /\ i \in 0..interval
    /\ fs \in [Paths -> Contents(MaxLen) \cup {Absent}]
    /\ idx \in 0..(Len(models) + 1)
    /\ mode \in {"wb", "ab"}
    /\ outcome \in {"none", "AlreadyValid", "Downloaded", "Failed"}

----------------------------------------------------------------------------
(* The program against a server that serves the content the manifest       *)
(* expects, with no connection, clone, parse or file error and no signal   *)

\* the content whose digest the entry expects
true_source(e) == CHOOSE c \in Contents(MaxLen) : hexdigest(c) = lower(e.hash)

\* the server reports the size of the source
HonestHead == pc = "head" /\ HeadResponse(Len(true_source(models[idx])))

\* the server sends the whole source when no range is asked for, the rest of
\* the source for a range that starts inside it, and 416 for a range that
\* starts at or after its end
HonestGet ==
    /\ pc = "get"
    /\ LET src == true_source(models[idx])
       IN IF file_size = 0
          THEN GetResponse(200, src, TRUE, TRUE)
          ELSE IF file_size < Len(src)
          THEN GetResponse(206, SubSeq(src, file_size + 1, Len(src)), TRUE, TRUE)
          ELSE GetResponse(416, <<>>, TRUE, TRUE)

InitHonest ==
    /\ Init
    /\ MODEL_CACHE_PATH
    /\ Len(models) = 1

NextHonest ==
    \/ WhileRunningOn \/ CycleCompleted
    \/ WaitCheck \/ Sleep1 \/ ErrSleepTick \/ ErrSleepEnd
    \/ MainEnv \/ CloneReturns \/ ParseReturns \/ MainReturn
    \/ CheckExisting \/ VerifyDownloaded
    \/ HonestHead \/ HonestGet \/ OpenReturns \/ StreamBlock \/ StreamEnd

\* every step the program can take is taken: no call blocks for ever
SpecHonest == InitHonest /\ [][NextHonest]_vars /\ WF_vars(NextHonest)

----------------------------------------------------------------------------
(* get_folder_name and verify_hash called on their own, on every input of a *)
(* bounded set                                                             *)

\* the state of the program that a call of a single function does not touch
Untouched ==
    /\ running = TRUE /\ cycle = 0 /\ i = 0 /\ err = "none"
    /\ MODEL_CACHE_PATH = TRUE /\ comfy_folders = {} /\ models = <<>>
    /\ fs = [p \in Paths |-> Absent]
    /\ idx = 0
    /\ file_size = 0 /\ mode = "wb" /\ total_size = 0 /\ status = 0
    /\ resp = <<>> /\ downloaded = 0 /\ pre = Absent
    /\ nhead = 0 /\ nget = 0
    /\ outcome = "none" /\ lastIdx = 0
    /\ sigIdx = 0 /\ sigWait = FALSE /\ slept = 0

\* model_type values and folder names get_folder_name is called with
Categories == {"lora", "loras", "vae", "unet"}

FolderNames == {"lora", "loras", "lorass", "vae", "vaes"}

InitFolder ==
    /\ pc = "call"
    /\ fn_arg \in [model_type : Categories, comfy_folders : SUBSET FolderNames]
    /\ fn_ret = <<>>
    /\ Untouched

\* get_folder_name(model_type, comfy_folders) returns
CallGetFolderName ==
    /\ pc = "call"
    /\ fn_ret' = get_folder_name(fn_arg.model_type, fn_arg.comfy_folders)
    /\ pc' = "returned"
    /\ UNCHANGED <<fn_arg, cycle, i, err, env, fs, idx, loc, hist, sig, slept>>

NextFolder == CallGetFolderName

SpecFolder == InitFolder /\ [][NextFolder]_vars

\* characters of the hex strings verify_hash is called with
HexChars == {"0", "a", "A", "e", "E"}

\* hex strings of at most n characters
HexStrings(n) == UNION {[1..k -> HexChars] : k \in 0..n}

InitVerify ==
    /\ pc = "call"
    /\ fn_arg \in [content : Contents(MaxLen), expected_hash : HexStrings(MaxLen + 1)]
    /\ fn_ret = <<>>
    /\ Untouched

\* verify_hash(file_path, expected_hash) returns, file_path holding content
CallVerifyHash ==
    /\ pc = "call"
    /\ fn_ret' = verify_hash(fn_arg.content, fn_arg.expected_hash)
    /\ pc' = "returned"
    /\ UNCHANGED <<fn_arg, cycle, i, err, env, fs, idx, loc, hist, sig, slept>>

NextVerify == CallVerifyHash

SpecVerify == InitVerify /\ [][NextVerify]_vars

----------------------------------------------------------------------------
(* Properties                                                              *)

Success == {"AlreadyValid", "Downloaded"}

\* the entry whose processing ended last has just ended in success
JustSucceeded == pc = "loop" /\ idx > 1 /\ lastIdx = idx - 1 /\ outcome \in Success

\* C1 as stated: when the processing of an entry has ended in success, the
\* destination file exists, its digest is the expected one, and after a
\* transfer its size is the total size the server reported.
C1_SizeIsReportedTotal ==
    JustSucceeded =>
        LET f == fs[file_path(models[lastIdx])]
        IN /\ f # Absent
           /\ hexdigest(f) = lower(models[lastIdx].hash)
           /\ outcome = "Downloaded" => Len(f) = total_size

\* C1 as amended: when the processing of an entry has ended in success, the
\* destination file exists and its digest equals the expected digest (both in
\* lowercase hex); nothing is said about the size the server reported.
C1_SuccessMeansValid ==
    JustSucceeded =>
        LET f == fs[file_path(models[lastIdx])]
        IN f # Absent /\ hexdigest(f) = lower(models[lastIdx].hash)

\* a corrupt file of the right length was replaced and the entry succeeded
C1_Witness ==
    /\ JustSucceeded /\ outcome = "Downloaded"
    /\ status = 200 /\ pre # Absent /\ pre # resp /\ Len(pre) = Len(resp)

\* C2 as stated: a digest failure after the download of an entry does not
\* abort the cycle, so when the except clause is reached with that failure no
\* entry of the manifest is left unprocessed.
C2_DigestFailureKeepsCycle ==
    (pc = "errsleep" /\ err = "digest") => idx >= Len(models)

\* C3: when the failure of the digest check after a transfer is reported, the
\* destination file does not exist.
C3_FailedFileDeleted ==
    (pc = "errsleep" /\ err = "digest") => fs[file_path(models[idx])] = Absent

\* the digest failure followed the immediate return of download_file (the
\* local size equalled the remote size, no GET was made)
C3_Witness ==
    /\ pc = "errsleep" /\ err = "digest"
    /\ nhead = 1 /\ nget = 0
    /\ fs[file_path(models[idx])] = Absent

\* C4 as stated: after a shutdown request that came while entry k was being
\* processed, entry k runs to its end, no entry after k is started in that
\* cycle and no further cycle starts.
C4_NoEntryAfterSignal ==
    [][ /\ (pc \in EntryPcs /\ pc' \notin EntryPcs) => pc' \in {"loop", "errsleep"}
        /\ sigIdx' > 0 =>
               (idx' <= sigIdx' \/ (idx' = sigIdx' + 1 /\ pc' \notin EntryPcs))
        /\ ~running => cycle' = cycle ]_vars

\* C4 as amended: after a shutdown request that came while entry k was being
\* processed, entry k runs to its end; the flag is not tested between
\* entries, so the for loop goes on to the entries after k until the manifest
\* is exhausted or an error aborts the cycle; no further cycle starts.
C4_CycleFinishesThenExit ==
    [][ /\ (pc \in EntryPcs /\ pc' \notin EntryPcs) => pc' \in {"loop", "errsleep"}
        /\ (pc = "loop" /\ idx <= Len(models)) =>
               \/ UNCHANGED <<pc, idx>>
               \/ pc' = "head" /\ idx' = idx
               \/ pc' = "loop" /\ idx' = idx + 1
        /\ ~running => cycle' = cycle ]_vars

\* the signal came during entry 1 and the loop has ended with the flag clear
C4_Witness ==
    pc = "done" /\ sigIdx = 1 /\ ~running /\ Len(models) = 2 /\ idx = 3

\* C5 as stated: after a shutdown request that came during an inter-cycle
\* wait (after a completed or an aborted cycle), at most one further second is
\* slept.
C5_WaitEndsWithinOneSleep ==
    sigWait => slept <= 1

\* C6 as stated: with MODEL_CACHE_PATH unset the process ends at startup: the
\* loop is not entered beyond the check, and no wait and no retry happens.
C6_MissingCachePathFatal ==
    ~MODEL_CACHE_PATH => (pc \notin WaitPcs /\ cycle <= 1)

\* C7: an error raised in a cycle leads to the except clause and not out of
\* the process; the except clause sleeps the whole interval whatever the
\* flag is; after it a new cycle starts when the flag is set and the loop is
\* left when it is clear.
C7_ErrorAbortsOnlyCycle ==
    [][ /\ (err = "none" /\ err' # "none") => (pc' = "errsleep" /\ i' = 0)
        /\ pc = "errsleep" =>
               \/ pc' = "errsleep" /\ i' \in {i, i + 1} /\ i' <= interval
               \/ pc' = "while" /\ i = interval
        /\ (pc = "while" /\ err # "none" /\ pc' # pc) =>
               IF running THEN pc' = "main" /\ cycle' = cycle + 1
                          ELSE pc' = "done" ]_vars

\* a failed digest check was waited out in full and the flag is still set
C7_Witness ==
    pc = "while" /\ err = "digest" /\ i = interval /\ running /\ cycle < MaxCycles

\* C8: when the last reconcile ended in success and the next reconcile is of
\* the same entry, that reconcile ends as AlreadyValid in one step, with no
\* HEAD and no GET request and the files unchanged.
C8_Idempotent ==
    [][ ( /\ pc = "loop" /\ idx <= Len(models)
          /\ outcome \in Success /\ lastIdx >= 1
          /\ models[lastIdx] = models[idx]
          /\ ~ UNCHANGED <<pc, idx>> )
        => ( /\ outcome' = "AlreadyValid" /\ lastIdx' = idx
             /\ pc' = "loop" /\ idx' = idx + 1
             /\ nhead' = 0 /\ nget' = 0
             /\ fs' = fs ) ]_vars

\* the second of two equal entries has ended as AlreadyValid without a request
C8_Witness ==
    /\ Len(models) = 2 /\ models[1] = models[2]
    /\ pc = "loop" /\ idx = 3 /\ lastIdx = 2 /\ outcome = "AlreadyValid"
    /\ nhead = 0 /\ nget = 0

\* the destination held the first N bytes of source, 0 < N < M, and the
\* server answered 206 with the bytes N..M-1
HonestResume(source) ==
    /\ status = 206
    /\ pre # Absent /\ Len(pre) > 0 /\ Len(pre) < Len(source)
    /\ IsPrefix(pre, source)
    /\ resp = SubSeq(source, Len(pre) + 1, Len(source))

\* C9: after a transfer that resumed a true prefix of a source with a 206
\* response, the destination has the size and the content of the source, and
\* the digest check against the digest of the source succeeds.
C9_ResumeCorrect ==
    \A source \in Contents(MaxLen) :
        HonestResume(source) =>
            /\ pc = "verify" =>
                   /\ fs[destination] = source
                   /\ Len(fs[destination]) = Len(source)
                   /\ verify_hash(fs[destination], hexdigest(source))
            /\ (pc = "verify" /\ lower(models[idx].hash) = hexdigest(source)) =>
                   verify_hash(fs[destination], models[idx].hash)
            /\ (pc = "loop" /\ lower(models[lastIdx].hash) = hexdigest(source)) =>
                   /\ outcome = "Downloaded"
                   /\ fs[file_path(models[lastIdx])] = source

\* a one-byte prefix was resumed to the two-byte source and verified
C9_Witness ==
    /\ HonestResume(<<0, 1>>) /\ pc = "loop" /\ outcome = "Downloaded"
    /\ fs[file_path(models[lastIdx])] = <<0, 1>>

\* C10: when the response is a full (200) response, the destination after the
\* transfer is exactly the response body whatever it held before, and while
\* the body is streamed it is a prefix of the body.
C10_FallbackCorrect ==
    status = 200 =>
        /\ pc = "verify" => fs[destination] = resp
        /\ pc = "stream" => IsPrefix(fs[destination], resp)

\* a ranged request was answered with 200 and the old bytes are gone
C10_Witness ==
    /\ pc = "verify" /\ status = 200
    /\ pre # Absent /\ Len(pre) > 0 /\ resp # <<>>
    /\ fs[destination] = resp

\* C11: get_folder_name returns model_type + "s" exactly when model_type is not
\* a folder name and model_type + "s" is one, returns model_type itself in every
\* other case, and leaves the folder names as they were.
C11_FolderResolution ==
    [][ (pc = "call" /\ pc' = "returned") =>
          LET c == fn_arg.model_type
              F == fn_arg.comfy_folders
          IN /\ (fn_ret' = c \o "s") <=> (c \notin F /\ (c \o "s") \in F)
             /\ (c \in F \/ (c \o "s") \notin F) => fn_ret' = c
             /\ fn_ret' \in {c, c \o "s"}
             /\ fn_arg' = fn_arg ]_vars

\* "lora" resolved to "loras" with only the plural present
C11_Witness ==
    /\ pc = "returned" /\ fn_arg.model_type = "lora"
    /\ fn_arg.comfy_folders = {"loras"} /\ fn_ret = "loras"

\* every way of writing the hex string h in capitals and small letters
CaseVariants(h) ==
    {s \in HexStrings(Len(h)) :
        Len(s) = Len(h) /\ \A k \in 1..Len(h) : s[k] \in {h[k], UpperChar(h[k])}}

\* C12: verify_hash returns true when the expected hash is the digest of the
\* content written in any mix of capitals and small letters, and false for
\* every other expected hash.
C12_DigestVerification ==
    pc = "returned" =>
        LET digest == hexdigest(fn_arg.content)
        IN /\ fn_ret \in BOOLEAN
           /\ fn_ret <=> fn_arg.expected_hash \in CaseVariants(digest)
           /\ fn_arg.expected_hash = digest => fn_ret

\* a digest given in capitals was accepted
C12_Witness ==
    /\ pc = "returned" /\ fn_arg.content = <<0, 1>>
    /\ fn_arg.expected_hash = <<"E", "0", "A">> /\ fn_ret = TRUE

\* C13 as stated: a data response whose status is neither 206 nor 200 ends the
\* transfer as a failure and none of its bytes is written, so download_file
\* never returns with such a status and never counts a byte of it as written.
C13_OtherStatusFails ==
    status \notin {0, 200, 206} =>
        (pc \notin {"verify", "loop"} /\ downloaded = file_size)

\* what open(destination, mode) left in the file plus the blocks written so far
WrittenSoFar ==
    opened(mode, pre) \o SubSeq(resp, 1, downloaded - file_size)

\* C14: when the connection fails while the body is streamed, the exception
\* reaches the except clause of the cycle, the destination keeps the bytes
\* written before the failure, and nothing changes the files (no digest check,
\* no unlink) before the next cycle processes its entries.
C14_PartialFileKept ==
    [][ /\ (pc = "stream" /\ pc' # "stream" /\ remaining # <<>>) =>
               /\ pc' = "errsleep" /\ err' = "stream" /\ outcome' = "Failed"
               /\ fs[destination] = WrittenSoFar
               /\ fs' = fs
        /\ (pc = "stream" /\ pc' = "errsleep") =>
               /\ err' = "stream"
               /\ fs'[destination] = WrittenSoFar
        /\ pc \in {"errsleep", "while", "main", "clone", "parse"} => fs' = fs ]_vars

\* the stream failed after a block was written, the wait is over and the part
\* written is still in the file
C14_Witness ==
    /\ pc = "while" /\ err = "stream" /\ running /\ i = interval
    /\ fs[file_path(models[idx])] # Absent
    /\ Len(fs[file_path(models[idx])]) > 0

\* C15: when the size of the destination equals the size the HEAD request
\* returned and that size is above 0, download_file returns without a GET
\* request and the file is what it was, whatever it holds.
C15_CompleteFileUntouched ==
    [][ (pc = "head" /\ pc' \notin {"head", "errsleep"}) =>
          /\ (fs[destination] # Absent /\ Len(fs[destination]) = total_size'
              /\ total_size' > 0) <=> pc' = "verify"
          /\ pc' = "verify" => (fs' = fs /\ nget' = 0 /\ pre' = fs[destination]) ]_vars

\* download_file returned at once on a file of the right size whose digest is
\* not the expected one
C15_Witness ==
    /\ pc = "verify" /\ nhead = 1 /\ nget = 0
    /\ fs[destination] = pre /\ Len(pre) = total_size
    /\ ~verify_hash(pre, models[idx].hash)

\* C16 as stated: when neither the HEAD response nor the data response carries
\* a size, the transfer still completes for the 200 and for the 206 response
\* (no exception for the missing size) and the whole body is written.
C16_NoSizeStillTransfers ==
    /\ ~(pc = "errsleep" /\ err = "header")
    /\ (pc = "verify" /\ nget = 1 /\ total_size = 0 /\ status \in {200, 206}) =>
           fs[destination] = opened(mode, pre) \o resp

\* C17: for one entry in one cycle at most one HEAD and at most one GET request
\* are made; a failed entry sends the cycle to the except clause, and from
\* there requests are made again only after the loop has entered a new cycle.
C17_OneAttemptPerCycle ==
    [][ /\ nhead' <= 1 /\ nget' <= 1 /\ nget' <= nhead'
        /\ (pc \in EntryPcs /\ pc' \notin EntryPcs) =>
               \/ pc' = "loop" /\ idx' = idx + 1 /\ outcome' = "Downloaded"
               \/ pc' = "errsleep" /\ idx' = idx /\ outcome' = "Failed"
        /\ pc = "errsleep" => pc' \in {"errsleep", "while"}
        /\ (pc = "while" /\ pc' # pc) =>
               (pc' = "done" \/ (pc' = "main" /\ cycle' = cycle + 1)) ]_vars

\* an entry that failed in the first cycle is being fetched in the second
C17_Witness ==
    /\ cycle = 2 /\ pc = "open" /\ nhead = 1 /\ nget = 1
    /\ outcome = "Failed" /\ lastIdx = idx

\* the file of entry k exists with the digest entry k expects
EntryValid(k) ==
    /\ fs[file_path(models[k])] # Absent
    /\ hexdigest(fs[file_path(models[k])]) = lower(models[k].hash)

\* C18 as stated: when main has returned, the file of every entry exists with
\* the digest that entry expects, whatever the manifest.
C18_CompletedAllValid ==
    pc = "completed" => \A k \in 1..Len(models) : EntryValid(k)

\* no other entry of the manifest has the destination of entry k and expects
\* another digest
Unrivalled(k) ==
    \A j \in 1..Len(models) :
        file_path(models[j]) = file_path(models[k]) =>
            lower(models[j].hash) = lower(models[k].hash)

\* C18 as amended: when main has returned, the file of every entry exists with
\* the digest that entry expects, for every entry whose destination is not
\* shared with an entry that expects another digest, and for the last entry.
C18_CompletedUnrivalledValid ==
    pc = "completed" =>
        \A k \in 1..Len(models) :
            (Unrivalled(k) \/ k = Len(models)) => EntryValid(k)

\* a cycle completed on two different entries with one destination that
\* expect the same digest, one in capitals
C18_Witness ==
    /\ pc = "completed" /\ Len(models) = 2 /\ models[1] # models[2]
    /\ file_path(models[1]) = file_path(models[2])
    /\ Unrivalled(1) /\ EntryValid(1) /\ EntryValid(2)

\* C19 as stated: against a server that serves the expected content, honours
\* ranges and rejects a range that starts past the end, repeated cycles reach
\* a state from which the entry's file is valid for ever, whatever the
\* destination held at the start.
C19_Converges ==
    <>[](EntryValid(1))

\* C20: once running is False it stays False and no cycle is started, and
\* if every call returns the loop is left.
C20_ShutdownIsFinal ==
    /\ [][~running => (~running' /\ cycle' = cycle)]_vars
    /\ (~running ~> pc = "done")

\* the signal came during the entry, the entry failed, the error sleep was
\* slept out and the loop was left
C20_Witness ==
    /\ pc = "done" /\ ~running /\ sigIdx = 1 /\ ~sigWait
    /\ outcome = "Failed" /\ i = interval

====
